---- MODULE Spec2Model ----
(***************************************************************************)
(* A model of the rpncalc kernel library: a table of RPN calculators,      *)
(* each with its own stack, size counter and mutex, used concurrently by   *)
(* several threads through rpncalc_new, rpncalc_delete, rpncalc_push,      *)
(* rpncalc_pop, rpncalc_op, rpncalc_size and rpncalc_at.                   *)
(*                                                                         *)
(* Every public function is cut into steps at its mutex_lock calls and at  *)
(* its unsynchronised shared accesses (the read and the write of           *)
(* next_handle++ in rpncalc_new, the read of calc->size in rpncalc_at).    *)
(* Output pointers are taken to be valid (non-NULL).                       *)
(***************************************************************************)
EXTENDS Integers, Sequences, FiniteSets, TLC

\* ------------------------------------------------------------------ bounds
NumThreads == 2
MaxCalcs == 2
MaxCalls == 4
MaxValue == 2
MaxIndex == 1

\* --------------------------------------------------------- result codes
RPNCALC_E_SUCCESS == 0
RPNCALC_E_NOMEM == -1
RPNCALC_E_INVALID == -2
RPNCALC_E_INSUFFICIENT == -3

Threads == 1..NumThreads
Addrs == 1..MaxCalcs
Handles == 0..(MaxCalcs - 1)
Operators == {"+", "-", "*", "/", "?"}
Indexes == -1..MaxIndex

\* ----------------------------------------------------- double arithmetic
\* A double is modelled as a fraction <<n, d>> in lowest terms with d > 0,
\* or as <<1, 0>> (+Inf), <<-1, 0>> (-Inf), <<0, 0>> (NaN).  Rounding and
\* the sign of zero are not modelled.
Abs(x) == IF x < 0 THEN -x ELSE x

Sign(x) == IF x < 0 THEN -1 ELSE IF x > 0 THEN 1 ELSE 0

RECURSIVE Gcd(_, _)
Gcd(a, b) == IF b = 0 THEN a ELSE Gcd(b, a % b)

Norm(n, d) ==
    IF d = 0 THEN <<Sign(n), 0>>
    ELSE LET g == Gcd(Abs(n), Abs(d))
         IN  <<(Sign(d) * n) \div g, Abs(d) \div g>>

Dbl(i) == <<i, 1>>

NaN == <<0, 0>>

IsNaN(x) == x = NaN

IsInf(x) == x[2] = 0 /\ x[1] # 0

Neg(x) == <<-x[1], x[2]>>

fadd(x, y) ==
    IF IsNaN(x) \/ IsNaN(y) THEN NaN
    ELSE IF IsInf(x) /\ IsInf(y) THEN (IF x = y THEN x ELSE NaN)
    ELSE IF IsInf(x) THEN x
    ELSE IF IsInf(y) THEN y
    ELSE Norm(x[1] * y[2] + y[1] * x[2], x[2] * y[2])

fsub(x, y) == fadd(x, Neg(y))

fmul(x, y) ==
    IF IsNaN(x) \/ IsNaN(y) THEN NaN
    ELSE Norm(x[1] * y[1], x[2] * y[2])

fdiv(x, y) ==
    IF IsNaN(x) \/ IsNaN(y) THEN NaN
    ELSE IF IsInf(y) THEN (IF IsInf(x) THEN NaN ELSE Dbl(0))
    ELSE IF y[1] = 0 THEN <<Sign(x[1]), 0>>
    ELSE Norm(x[1] * y[2] * Sign(y[1]), x[2] * Abs(y[1]))

PushVals == {Dbl(i) : i \in 0..MaxValue}

\* What a read of memory that holds no entry may yield.
GarbageVals == {Dbl(0), Dbl(1)}

\* What kmalloc'ed, never written memory may hold as calc->size.
GarbageSizes == {-1, 0, 1}

NoVal == <<>>

Codes == {RPNCALC_E_SUCCESS, RPNCALC_E_NOMEM, RPNCALC_E_INVALID,
          RPNCALC_E_INSUFFICIENT}

\* ------------------------------------------------------------------ state
VARIABLES
    heap,         \* Addrs -> struct rpncalc (and its allocation status)
    calcs,        \* the hashtable, as the addresses it holds, newest first
    calcs_lock,   \* owner of the table mutex, 0 when free
    next_handle,  \* the static counter
    th,           \* per thread: position and locals of its current call
    pushed,       \* per calculator: the Push that was the last operation on it
    ncalls        \* number of calls made so far

vars == <<heap, calcs, calcs_lock, next_handle, th, pushed, ncalls>>

\* heap[a].st: "none" (never allocated), "new" (allocated, not yet in the
\* table), "live" (in the table), "removed" (taken out of the table, not yet
\* freed), "freed".
NoCalc ==
    [st |-> "none", handle |-> -1, lock |-> 0, stack |-> <<>>, size |-> 0,
     poisoned |-> FALSE]

IdleThread ==
    [pc |-> "idle", op |-> "none", handle |-> 0, arg |-> NoVal, calc |-> 0,
     tmp |-> 0, ret |-> 0, out |-> NoVal, late |-> FALSE]

Init ==
    /\ heap = [a \in Addrs |-> NoCalc]
    /\ calcs = <<>>
    /\ calcs_lock = 0
    /\ next_handle = 0
    /\ th = [t \in Threads |-> IdleThread]
    /\ pushed = [a \in Addrs |-> NoVal]
    /\ ncalls = 0

\* ---------------------------------------------------------------- helpers
\* hash_for_each_possible over the bucket of `handle`: hash_add inserts at
\* the head of the bucket, so the newest calculator with that handle is found.
RECURSIVE FirstWith(_, _, _)
FirstWith(seq, hp, handle) ==
    IF seq = <<>> THEN 0
    ELSE IF hp[Head(seq)].handle = handle THEN Head(seq)
    ELSE FirstWith(Tail(seq), hp, handle)

get_rpncalc(handle) == FirstWith(calcs, heap, handle)

\* hash_del
RECURSIVE Without(_, _)
Without(seq, a) ==
    IF seq = <<>> THEN <<>>
    ELSE IF Head(seq) = a THEN Tail(seq)
    ELSE <<Head(seq)>> \o Without(Tail(seq), a)

\* list_add at the head, size++
push(rec, v) == [rec EXCEPT !.stack = <<v>> \o @, !.size = @ + 1]

\* list_del of the first entry, size--
pop(rec) == [rec EXCEPT !.stack = Tail(@), !.size = @ - 1]

\* pop's check `calc->size == 0`
stack_empty(rec) == rec.size = 0

\* the reducers' check with its bound off by one
TooFewOff(rec) == rec.size < 1

\* the reducers' check `calc->size < 2`
too_few(rec) == rec.size < 2

Goto(t, label) == th' = [th EXCEPT ![t].pc = label]

Return(t, code, value) ==
    th' = [th EXCEPT ![t].pc = "ret", ![t].calc = 0, ![t].tmp = 0,
                     ![t].ret = code, ![t].out = value]

\* The thread faults (a kernel oops) and never returns; what it holds stays held.
Crash(t) == th' = [th EXCEPT ![t].pc = "crashed"]

\* mutex_lock(&calcs_lock)
LockTable(t, from, to) ==
    /\ th[t].pc = from
    /\ calcs_lock = 0
    /\ calcs_lock' = t
    /\ Goto(t, to)
    /\ UNCHANGED <<heap, calcs, next_handle, pushed, ncalls>>

\* mutex_lock(&calc->lock) on a calculator that has not been freed
LockCalc(t, from, to) ==
    /\ th[t].pc = from
    /\ heap[th[t].calc].st # "freed"
    /\ heap[th[t].calc].lock = 0
    /\ heap' = [heap EXCEPT ![th[t].calc].lock = t]
    /\ Goto(t, to)
    /\ UNCHANGED <<calcs, calcs_lock, next_handle, pushed, ncalls>>

\* ------------------------------------------------------------ the callers
Call(t) ==
    /\ th[t].pc = "idle"
    /\ ncalls < MaxCalls
    /\ ncalls' = ncalls + 1
    /\ \/ /\ Cardinality({a \in Addrs : heap[a].st = "none"})
               > Cardinality({u \in Threads : th[u].pc = "new_enter"})
          /\ th' = [th EXCEPT ![t] = [IdleThread EXCEPT !.pc = "new_enter",
                                                        !.op = "new"]]
       \/ \E h \in Handles :
            LET late == \E a \in Addrs : /\ heap[a].st = "freed"
                                         /\ heap[a].handle = h
                start(o, label, x) ==
                    th' = [th EXCEPT ![t] =
                             [IdleThread EXCEPT !.pc = label, !.op = o,
                                                !.handle = h, !.arg = x,
                                                !.late = late]]
            IN  \/ start("delete", "del_lock", NoVal)
                \/ \E v \in PushVals : start("push", "push_lock", v)
                \/ start("pop", "pop_lock", NoVal)
                \/ \E o \in Operators : start("op", "op_lock", o)
                \/ start("size", "size_lock", NoVal)
                \/ \E i \in Indexes : start("at", "at_lock", i)
    /\ UNCHANGED <<heap, calcs, calcs_lock, next_handle, pushed>>

\* The caller has the result code and the output of its call (pc = "ret") and
\* goes on.
Done(t) ==
    /\ th[t].pc = "ret"
    /\ th' = [th EXCEPT ![t] = IdleThread]
    /\ UNCHANGED <<heap, calcs, calcs_lock, next_handle, pushed, ncalls>>

\* ------------------------------------------------------------ rpncalc_new
\* kmalloc, and the read of next_handle in `next_handle++`
new_enter(t) ==
    /\ th[t].pc = "new_enter"
    /\ \/ /\ Return(t, RPNCALC_E_NOMEM, NoVal)
          /\ UNCHANGED heap
       \/ \E g \in GarbageSizes :
            LET a == CHOOSE x \in Addrs :
                        /\ heap[x].st = "none"
                        /\ \A y \in Addrs : heap[y].st = "none" => x <= y
            IN  /\ heap' = [heap EXCEPT ![a] = [NoCalc EXCEPT !.st = "new",
                                                              !.size = g]]
                /\ th' = [th EXCEPT ![t].pc = "new_assign", ![t].calc = a,
                                    ![t].tmp = next_handle]
    /\ UNCHANGED <<calcs, calcs_lock, next_handle, pushed, ncalls>>

\* the write of `next_handle++`, calc->handle, INIT_LIST_HEAD, mutex_init
new_assign(t) ==
    /\ th[t].pc = "new_assign"
    /\ next_handle' = th[t].tmp + 1
    /\ heap' = [heap EXCEPT ![th[t].calc].handle = th[t].tmp,
                            ![th[t].calc].stack = <<>>,
                            ![th[t].calc].lock = 0]
    /\ Goto(t, "new_lock")
    /\ UNCHANGED <<calcs, calcs_lock, pushed, ncalls>>

new_lock(t) == LockTable(t, "new_lock", "new_insert")

\* hash_add, *handlep, mutex_unlock(&calcs_lock)
new_insert(t) ==
    /\ th[t].pc = "new_insert"
    /\ calcs' = <<th[t].calc>> \o calcs
    /\ heap' = [heap EXCEPT ![th[t].calc].st = "live"]
    /\ calcs_lock' = 0
    /\ Return(t, RPNCALC_E_SUCCESS, heap[th[t].calc].handle)
    /\ UNCHANGED <<next_handle, pushed, ncalls>>

rpncalc_new(t) ==
    new_enter(t) \/ new_assign(t) \/ new_lock(t) \/ new_insert(t)

\* --------------------------------------------------------- rpncalc_delete
del_lock(t) == LockTable(t, "del_lock", "del_find")

\* get_rpncalc, hash_del, mutex_unlock(&calcs_lock)
del_find(t) ==
    /\ th[t].pc = "del_find"
    /\ calcs_lock' = 0
    /\ LET c == get_rpncalc(th[t].handle)
       IN  IF c = 0
           THEN /\ Return(t, RPNCALC_E_INVALID, NoVal)
                /\ UNCHANGED <<heap, calcs>>
           ELSE /\ calcs' = Without(calcs, c)
                /\ heap' = [heap EXCEPT ![c].st = "removed"]
                /\ th' = [th EXCEPT ![t].pc = "del_lockc", ![t].calc = c]
    /\ UNCHANGED <<next_handle, pushed, ncalls>>

\* a delete that goes on to free without mutex_lock(&calc->lock)
DelNoLock(t) ==
    /\ th[t].pc = "del_lockc"
    /\ Goto(t, "del_free")
    /\ UNCHANGED <<heap, calcs, calcs_lock, next_handle, pushed, ncalls>>

\* mutex_lock(&calc->lock)
del_lockc(t) == LockCalc(t, "del_lockc", "del_free")

\* the loop that frees the entries, kfree(calc); the mutex is not unlocked.
\* The contents of freed memory are not kept.
del_free(t) ==
    /\ th[t].pc = "del_free"
    /\ IF heap[th[t].calc].poisoned
       THEN /\ Crash(t)
            /\ UNCHANGED <<heap, pushed>>
       ELSE /\ heap' = [heap EXCEPT ![th[t].calc] =
                          [NoCalc EXCEPT !.st = "freed",
                                         !.handle = heap[th[t].calc].handle]]
            /\ pushed' = [pushed EXCEPT ![th[t].calc] = NoVal]
            /\ Return(t, RPNCALC_E_SUCCESS, NoVal)
    /\ UNCHANGED <<calcs, calcs_lock, next_handle, ncalls>>

rpncalc_delete(t) ==
    del_lock(t) \/ del_find(t) \/ del_lockc(t) \/ del_free(t)

\* ----------------------------------------------------------- rpncalc_push
push_lock(t) == LockTable(t, "push_lock", "push_find")

\* get_rpncalc, mutex_unlock(&calcs_lock), new_entry
push_find(t) ==
    /\ th[t].pc = "push_find"
    /\ calcs_lock' = 0
    /\ LET c == get_rpncalc(th[t].handle)
       IN  IF c = 0
           THEN Return(t, RPNCALC_E_INVALID, NoVal)
           ELSE \/ Return(t, RPNCALC_E_NOMEM, NoVal)
                \/ th' = [th EXCEPT ![t].pc = "push_lockc", ![t].calc = c]
    /\ UNCHANGED <<heap, calcs, next_handle, pushed, ncalls>>

push_lockc(t) == LockCalc(t, "push_lockc", "push_body")

\* push(calc, entry), mutex_unlock(&calc->lock)
push_body(t) ==
    LET c == th[t].calc
        rec == heap[c]
    IN  /\ th[t].pc = "push_body"
        /\ IF rec.poisoned
           THEN /\ Crash(t)
                /\ UNCHANGED <<heap, pushed>>
           ELSE /\ heap' = [heap EXCEPT ![c] = [push(rec, th[t].arg)
                                                  EXCEPT !.lock = 0]]
                /\ pushed' = [pushed EXCEPT
                                ![c] = <<th[t].arg, rec.stack, rec.size>>]
                /\ Return(t, RPNCALC_E_SUCCESS, NoVal)
        /\ UNCHANGED <<calcs, calcs_lock, next_handle, ncalls>>

rpncalc_push(t) ==
    push_lock(t) \/ push_find(t) \/ push_lockc(t) \/ push_body(t)

\* ------------------------------------------------------------ rpncalc_pop
pop_lock(t) == LockTable(t, "pop_lock", "pop_find")

\* get_rpncalc, mutex_unlock(&calcs_lock)
Find(t, from, to) ==
    /\ th[t].pc = from
    /\ calcs_lock' = 0
    /\ LET c == get_rpncalc(th[t].handle)
       IN  IF c = 0
           THEN Return(t, RPNCALC_E_INVALID, NoVal)
           ELSE th' = [th EXCEPT ![t].pc = to, ![t].calc = c]
    /\ UNCHANGED <<heap, calcs, next_handle, pushed, ncalls>>

pop_find(t) == Find(t, "pop_find", "pop_lockc")

pop_lockc(t) == LockCalc(t, "pop_lockc", "pop_body")

\* pop(calc, &entry), mutex_unlock(&calc->lock), *valuep, kfree(entry).
\* With a size other than 0 and an empty list, list_first_entry yields the
\* list head itself: the value read is garbage, list_del poisons the head,
\* and kfree is handed a pointer into the calculator.
pop_body(t) ==
    LET c == th[t].calc
        rec == heap[c]
    IN  /\ th[t].pc = "pop_body"
        /\ IF stack_empty(rec)
           THEN /\ heap' = [heap EXCEPT ![c].lock = 0]
                /\ Return(t, RPNCALC_E_INSUFFICIENT, NoVal)
           ELSE IF rec.poisoned
           THEN /\ Crash(t)
                /\ UNCHANGED heap
           ELSE IF rec.stack = <<>>
           THEN /\ heap' = [heap EXCEPT ![c].lock = 0, ![c].size = @ - 1,
                                        ![c].poisoned = TRUE]
                /\ \/ Crash(t)
                   \/ \E g \in GarbageVals : Return(t, RPNCALC_E_SUCCESS, g)
           ELSE /\ heap' = [heap EXCEPT ![c] = [pop(rec) EXCEPT !.lock = 0]]
                /\ Return(t, RPNCALC_E_SUCCESS, Head(rec.stack))
        /\ pushed' = [pushed EXCEPT ![c] = NoVal]
        /\ UNCHANGED <<calcs, calcs_lock, next_handle, ncalls>>

rpncalc_pop(t) ==
    pop_lock(t) \/ pop_find(t) \/ pop_lockc(t) \/ pop_body(t)

\* ------------------------------------------------------------- rpncalc_op
\* The four reducers, once the size check and new_entry have passed:
\* op1 is popped first, op2 second, and the result is pushed.
do_add(rec) ==
    LET op1 == Head(rec.stack)
        op2 == Head(pop(rec).stack)
    IN  push(pop(pop(rec)), fadd(op2, op1))

do_substract(rec) ==
    LET op1 == Head(rec.stack)
        op2 == Head(pop(rec).stack)
    IN  push(pop(pop(rec)), fsub(op2, op1))

do_multiply(rec) ==
    LET op1 == Head(rec.stack)
        op2 == Head(pop(rec).stack)
    IN  push(pop(pop(rec)), fmul(op2, op1))

do_divide(rec) ==
    LET op1 == Head(rec.stack)
        op2 == Head(pop(rec).stack)
    IN  push(pop(pop(rec)), fdiv(op2, op1))

\* a reducer whose new_entry fails after both operands were popped
ReducerPopsFirst(rec) ==
    IF Len(rec.stack) >= 2 THEN pop(pop(rec)) ELSE rec

\* a reducer whose new_entry fails: it returns before its pops, and the
\* calculator is as it was
reducer_nomem(rec) == rec

\* a switch that has a case for every operator symbol
AnyIsReducer(o) == o \in Operators

\* the case labels of the switch of rpncalc_op
is_reducer(o) == o \in {"+", "-", "*", "/"}

\* the switch of rpncalc_op
do_op(o, rec) ==
    CASE o = "+" -> do_add(rec)
      [] o = "-" -> do_substract(rec)
      [] o = "*" -> do_multiply(rec)
      [] o = "/" -> do_divide(rec)

op_lock(t) == LockTable(t, "op_lock", "op_find")

op_find(t) == Find(t, "op_find", "op_lockc")

op_lockc(t) == LockCalc(t, "op_lockc", "op_body")

\* the switch, the reducer, the read of the top, mutex_unlock(&calc->lock).
\* The default case returns with the calculator's mutex still held.  A
\* reducer that passes its size check with fewer than two entries in the
\* list pops the list head, and its push then faults on the poisoned head.
op_body(t) ==
    LET c == th[t].calc
        rec == heap[c]
        o == th[t].arg
    IN  /\ th[t].pc = "op_body"
        /\ IF ~is_reducer(o)
           THEN /\ Return(t, RPNCALC_E_INVALID, NoVal)
                /\ UNCHANGED heap
           ELSE IF too_few(rec)
           THEN /\ heap' = [heap EXCEPT ![c].lock = 0]
                /\ Return(t, RPNCALC_E_INSUFFICIENT, NoVal)
           ELSE \/ /\ heap' = [heap EXCEPT
                                      ![c] = [reducer_nomem(rec) EXCEPT !.lock = 0]]
                   /\ Return(t, RPNCALC_E_NOMEM, NoVal)
                \/ IF rec.poisoned \/ Len(rec.stack) < 2
                   THEN /\ Crash(t)
                        /\ heap' = [heap EXCEPT ![c].poisoned = TRUE]
                   ELSE /\ heap' = [heap EXCEPT
                                      ![c] = [do_op(o, rec) EXCEPT !.lock = 0]]
                        /\ Return(t, RPNCALC_E_SUCCESS,
                                  Head(do_op(o, rec).stack))
        /\ pushed' = [pushed EXCEPT ![c] = NoVal]
        /\ UNCHANGED <<calcs, calcs_lock, next_handle, ncalls>>

rpncalc_op(t) ==
    op_lock(t) \/ op_find(t) \/ op_lockc(t) \/ op_body(t)

\* ----------------------------------------------------------- rpncalc_size
size_lock(t) == LockTable(t, "size_lock", "size_find")

size_find(t) == Find(t, "size_find", "size_lockc")

size_lockc(t) == LockCalc(t, "size_lockc", "size_body")

\* *sizep = calc->size, mutex_unlock(&calc->lock)
size_body(t) ==
    LET c == th[t].calc
    IN  /\ th[t].pc = "size_body"
        /\ heap' = [heap EXCEPT ![c].lock = 0]
        /\ Return(t, RPNCALC_E_SUCCESS, heap[c].size)
        /\ pushed' = [pushed EXCEPT ![c] = NoVal]
        /\ UNCHANGED <<calcs, calcs_lock, next_handle, ncalls>>

rpncalc_size(t) ==
    size_lock(t) \/ size_find(t) \/ size_lockc(t) \/ size_body(t)

\* ------------------------------------------------------------- rpncalc_at
at_lock(t) == LockTable(t, "at_lock", "at_find")

\* get_rpncalc; the not-found return leaves calcs_lock held
at_find(t) ==
    /\ th[t].pc = "at_find"
    /\ LET c == get_rpncalc(th[t].handle)
       IN  IF c = 0
           THEN /\ Return(t, RPNCALC_E_INVALID, NoVal)
                /\ UNCHANGED calcs_lock
           ELSE /\ th' = [th EXCEPT ![t].pc = "at_check", ![t].calc = c]
                /\ calcs_lock' = 0
    /\ UNCHANGED <<heap, calcs, next_handle, pushed, ncalls>>

\* the index check, which reads calc->size without the calculator's mutex
at_check(t) ==
    /\ th[t].pc = "at_check"
    /\ heap[th[t].calc].st # "freed"
    /\ IF th[t].arg < 0 \/ th[t].arg >= heap[th[t].calc].size
       THEN Return(t, RPNCALC_E_INVALID, NoVal)
       ELSE Goto(t, "at_lockc")
    /\ UNCHANGED <<heap, calcs, calcs_lock, next_handle, pushed, ncalls>>

at_lockc(t) == LockCalc(t, "at_lockc", "at_body")

\* the walk from the first entry, *valuep, mutex_unlock(&calc->lock).  The
\* list is circular: a walk of more steps than it has entries reaches the
\* list head, and the value read there is garbage.
at_body(t) ==
    LET c == th[t].calc
        rec == heap[c]
        i == th[t].arg
    IN  /\ th[t].pc = "at_body"
        /\ IF rec.poisoned
           THEN /\ Crash(t)
                /\ UNCHANGED heap
           ELSE /\ heap' = [heap EXCEPT ![c].lock = 0]
                /\ IF i < Len(rec.stack)
                   THEN Return(t, RPNCALC_E_SUCCESS, rec.stack[i + 1])
                   ELSE \E g \in GarbageVals :
                            Return(t, RPNCALC_E_SUCCESS, g)
        /\ pushed' = [pushed EXCEPT ![c] = NoVal]
        /\ UNCHANGED <<calcs, calcs_lock, next_handle, ncalls>>

rpncalc_at(t) ==
    at_lock(t) \/ at_find(t) \/ at_check(t) \/ at_lockc(t) \/ at_body(t)

\* ----------------------------------------------------- use after kfree
\* A thread that resolved a calculator and then finds it freed locks (or, in
\* rpncalc_at, reads) freed memory: it may fault or hang on what the memory
\* now holds, or go on and return any result.
UsesCalc(label) ==
    label \in {"del_lockc", "push_lockc", "pop_lockc", "op_lockc",
               "size_lockc", "at_check", "at_lockc"}

use_after_free(t) ==
    /\ UsesCalc(th[t].pc)
    /\ heap[th[t].calc].st = "freed"
    /\ \/ Crash(t)
       \/ \E code \in Codes : Return(t, code, NoVal)
    /\ UNCHANGED <<heap, calcs, calcs_lock, next_handle, pushed, ncalls>>

\* ---------------------------------------------------------- specification
Next ==
    \E t \in Threads :
        \/ Call(t)
        \/ Done(t)
        \/ rpncalc_new(t)
        \/ rpncalc_delete(t)
        \/ rpncalc_push(t)
        \/ rpncalc_pop(t)
        \/ rpncalc_op(t)
        \/ rpncalc_size(t)
        \/ rpncalc_at(t)
        \/ use_after_free(t)

Spec == Init /\ [][Next]_vars

\* ------------------------------------------------------------------ claims
InCall(t) == th[t].pc \notin {"idle", "ret", "crashed"}

WaitsTable(t) ==
    th[t].pc \in {"new_lock", "del_lock", "push_lock", "pop_lock", "op_lock",
                  "size_lock", "at_lock"}

WaitsCalc(t) ==
    th[t].pc \in {"del_lockc", "push_lockc", "pop_lockc", "op_lockc",
                  "size_lockc", "at_lockc"}

\* The thread t takes the step that leaves the label.
Leaves(t, label) == th[t].pc = label /\ th'[t].pc # label

Arith == {"+", "-", "*", "/"}

\* C1: every call returns; no call blocks forever on the table lock or on
\* an instance lock.  A lock is released only by the call that took it, so a
\* thread blocks forever once it waits for a lock whose owner has returned
\* or faulted, or is the waiting thread itself; stated as: no thread has
\* faulted, and a thread that waits for a held lock waits for another thread
\* that is still inside a call.
C1_NoCallBlocksForever ==
    \A t \in Threads :
        /\ th[t].pc # "crashed"
        /\ (WaitsTable(t) /\ calcs_lock # 0)
              => (calcs_lock # t /\ InCall(calcs_lock))
        /\ (WaitsCalc(t) /\ heap[th[t].calc].lock # 0)
              => (heap[th[t].calc].lock # t /\ InCall(heap[th[t].calc].lock))

\* C2: a Calculator is not freed while a thread still holds the reference it
\* resolved for it under the table lock.
C2_NoFreeWhileReferenced ==
    \A t \in Threads :
        th[t].calc # 0 => heap[th[t].calc].st # "freed"

\* C3: the table holds at most one Calculator per handle value.
C3_OneCalcPerHandle ==
    \A i, j \in 1..Len(calcs) :
        i # j => heap[calcs[i]].handle # heap[calcs[j]].handle

\* C4: handles are assigned monotonically: the first Calculator gets handle 0,
\* and every later one a handle greater than every handle given before,
\* deleted ones included.  Creations are ordered by the moment each takes its
\* handle from next_handle.
C4_HandlesMonotonic ==
    [][\A a \in Addrs :
          (heap[a].handle < 0 /\ heap'[a].handle >= 0)
          => /\ \A b \in Addrs :
                   heap[b].handle >= 0 => heap'[a].handle > heap[b].handle
             /\ (\A b \in Addrs : heap[b].handle < 0) => heap'[a].handle = 0
      ]_vars

\* C5: the size counter of every registered Calculator equals the number of
\* entries of its stack (0 right after Create).
C5_SizeIsCount ==
    \A a \in Addrs :
        heap[a].st = "live" => heap[a].size = Len(heap[a].stack)

\* C6: operations on a handle h1 neither change nor block a Calculator of
\* another handle h2: a step of a call on h1 leaves every registered
\* Calculator of another handle as it was, and no call on h2 waits for a lock
\* that a call on h1 kept when it returned.
C6_Isolation ==
    /\ [][\A t \in Threads : \A a \in Addrs :
             (/\ th'[t] # th[t]
              /\ th[t].op \notin {"none", "new"}
              /\ heap[a].st = "live"
              /\ heap[a].handle # th[t].handle)
             => heap'[a] = heap[a]
         ]_vars
    /\ [](\A u, t \in Threads :
             ~ (/\ th[u].pc = "ret"
                /\ th[u].op \notin {"none", "new"}
                /\ th[t].op \notin {"none", "new"}
                /\ th[t].handle # th[u].handle
                /\ get_rpncalc(th[t].handle) # 0
                /\ \/ WaitsTable(t) /\ calcs_lock = u
                   \/ WaitsCalc(t) /\ heap[th[t].calc].lock = u))

\* C7: once Delete(h) has returned Success, every call with h that starts
\* later returns InvalidArgument, and Delete(h) succeeds once per handle.
C7_DeletedHandleInvalid ==
    /\ \A t \in Threads :
          (th[t].pc = "ret" /\ th[t].late) => th[t].ret = RPNCALC_E_INVALID
    /\ \A h \in Handles :
          Cardinality({a \in Addrs : /\ heap[a].st = "freed"
                                     /\ heap[a].handle = h}) <= 1

\* What a (op) b is, for a pushed before b.
Expected(o, a, b) ==
    CASE o = "+" -> fadd(a, b)
      [] o = "-" -> fsub(a, b)
      [] o = "*" -> fmul(a, b)
      [] o = "/" -> fdiv(a, b)

\* C8: Apply with one of + - * / on a stack of at least two entries, top b
\* and a below it, returns Success with a (op) b, which replaces the two
\* operands as the new top; size drops by 1 and the entries below keep their
\* values and order.  (A failed allocation of the result, NoMemory with the
\* stack unchanged, is allowed for.)
C8_ApplyReduces ==
    [][\A t \in Threads :
          LET c == th[t].calc
              stk == heap[c].stack
              r == Expected(th[t].arg, stk[2], stk[1])
          IN  (/\ Leaves(t, "op_body")
               /\ th[t].arg \in Arith
               /\ Len(stk) >= 2)
              => \/ /\ th'[t].pc = "ret"
                    /\ th'[t].ret = RPNCALC_E_SUCCESS
                    /\ th'[t].out = r
                    /\ heap'[c].stack = <<r>> \o SubSeq(stk, 3, Len(stk))
                    /\ heap'[c].size = heap[c].size - 1
                 \/ /\ th'[t].pc = "ret"
                    /\ th'[t].ret = RPNCALC_E_NOMEM
                    /\ heap'[c].stack = stk
                    /\ heap'[c].size = heap[c].size
      ]_vars

\* C9: Push(h, v) followed immediately by Pop(h) returns v and leaves the
\* entries and the size as they were before the Push.
C9_PushPopRoundTrip ==
    [][\A t \in Threads :
          LET c == th[t].calc
          IN  (Leaves(t, "pop_body") /\ pushed[c] # NoVal)
              => /\ th'[t].pc = "ret"
                 /\ th'[t].ret = RPNCALC_E_SUCCESS
                 /\ th'[t].out = pushed[c][1]
                 /\ heap'[c].stack = pushed[c][2]
                 /\ heap'[c].size = pushed[c][3]
      ]_vars

C11_AtReturnsEntry ==
    [][\A t \in Threads :
          LET c == th[t].calc
              i == th[t].arg
          IN  /\ (/\ Leaves(t, "at_check")
                  /\ heap[c].st # "freed"
                  /\ (i < 0 \/ i >= heap[c].size))
                 => /\ th'[t].pc = "ret"
                    /\ th'[t].ret = RPNCALC_E_INVALID
                    /\ heap' = heap
              /\ Leaves(t, "at_body")
                 => /\ th'[t].pc = "ret"
                    /\ th'[t].ret = RPNCALC_E_SUCCESS
                    /\ i < Len(heap[c].stack)
                    /\ th'[t].out = heap[c].stack[i + 1]
                    /\ heap'[c].stack = heap[c].stack
                    /\ heap'[c].size = heap[c].size
      ]_vars

\* C12: an operation that returns NoMemory leaves all state unchanged: the
\* entries and the size of every calculator, the registry, and the next
\* handle value are what they were before the step that fails.
C12_NoMemoryNoChange ==
    [][\A t \in Threads :
          (/\ th[t].pc # "ret"
           /\ th'[t].pc = "ret"
           /\ th'[t].ret = RPNCALC_E_NOMEM)
          => /\ calcs' = calcs
             /\ next_handle' = next_handle
             /\ \A a \in Addrs : /\ heap'[a].stack = heap[a].stack
                                 /\ heap'[a].size = heap[a].size
                                 /\ heap'[a].st = heap[a].st
                                 /\ heap'[a].handle = heap[a].handle
      ]_vars

\* A reducer has returned NoMemory on a calculator that holds two entries.
C12_Witness ==
    \E t \in Threads :
        /\ th[t].pc = "ret"
        /\ th[t].op = "op"
        /\ th[t].ret = RPNCALC_E_NOMEM
        /\ \E a \in Addrs : /\ heap[a].st = "live"
                             /\ heap[a].handle = th[t].handle
                             /\ Len(heap[a].stack) >= 2
                             /\ heap[a].size = Len(heap[a].stack)

\* C13: Apply on a registered handle with an operator symbol outside
\* {+, -, *, /} returns InvalidArgument and leaves the entries and the size
\* of the stack as they were, whatever the stack contains.
C13_UnknownOperator ==
    [][\A t \in Threads :
          LET c == th[t].calc
          IN  (Leaves(t, "op_body") /\ th[t].arg \notin Arith)
              => /\ th'[t].pc = "ret"
                 /\ th'[t].ret = RPNCALC_E_INVALID
                 /\ heap'[c].stack = heap[c].stack
                 /\ heap'[c].size = heap[c].size
                 /\ heap'[c].st = heap[c].st
      ]_vars

\* Apply with the symbol ? has returned on a registered calculator that holds
\* an entry.
C13_Witness ==
    \E t \in Threads :
        /\ th[t].pc = "ret"
        /\ th[t].op = "op"
        /\ th[t].arg \notin Arith
        /\ th[t].ret = RPNCALC_E_INVALID
        /\ \E a \in Addrs : /\ heap[a].st = "live"
                             /\ heap[a].handle = th[t].handle
                             /\ heap[a].stack # <<>>

\* C14: the table lock is held only while a mapping is inserted, scanned or
\* removed: a thread that holds it is at the insertion or at the lookup of
\* its call, and a thread that has returned from a call does not hold it.
C14_TableLockReleased ==
    \A t \in Threads :
        calcs_lock = t
           => th[t].pc \in {"new_insert", "del_find", "push_find", "pop_find",
                            "op_find", "size_find", "at_find"}

\* C15: the two lock scopes are never nested: no thread holds the table lock
\* while it holds the instance lock of a Calculator.
C15_LocksNotNested ==
    \A t \in Threads : \A a \in Addrs :
        ~ (/\ calcs_lock = t
           /\ heap[a].st \in {"live", "removed"}
           /\ heap[a].lock = t)

\* C16: every read and every write of a Calculator's entries or size by
\* Push, Pop, Apply, Size or At, the index check of At included, is made by
\* a thread that holds the Calculator's instance lock.
C16_AccessUnderInstanceLock ==
    [][\A t \in Threads :
          (\E label \in {"push_body", "pop_body", "op_body", "size_body",
                          "at_check", "at_body"} : Leaves(t, label))
          => heap[th[t].calc].lock = t
      ]_vars

\* C17: calls on one handle are serialized by the instance lock; an At that
\* runs concurrently with a Pop or Apply never reads past the end of the
\* stack: when At reads under the instance lock, on a Calculator whose size
\* is the number of its entries, its index is below that number and the
\* value it returns is the entry at that index.
C17_AtWithinStack ==
    [][\A t \in Threads :
          LET c == th[t].calc
              i == th[t].arg
          IN  (/\ Leaves(t, "at_body")
               /\ ~ heap[c].poisoned
               /\ heap[c].size = Len(heap[c].stack))
              => /\ i < Len(heap[c].stack)
                 /\ th'[t].out = heap[c].stack[i + 1]
      ]_vars

InBody(t) ==
    th[t].pc \in {"push_body", "pop_body", "op_body", "size_body", "at_body",
                  "del_free"}

\* C18: Delete removes the mapping while it holds the table lock, and frees
\* the Calculator only afterwards: the Calculator is out of the table, the
\* deleting thread has released the table lock and holds the instance lock,
\* and no other thread is inside the instance-lock critical section.
C18_DeleteOrder ==
    [][\A a \in Addrs :
          /\ (heap[a].st # "removed" /\ heap'[a].st = "removed")
                => \E t \in Threads :
                      /\ Leaves(t, "del_find")
                      /\ calcs_lock = t
                      /\ heap[a].st = "live"
                      /\ \E i \in 1..Len(calcs) : calcs[i] = a
                      /\ \A i \in 1..Len(calcs') : calcs'[i] # a
          /\ (heap[a].st # "freed" /\ heap'[a].st = "freed")
                => \E t \in Threads :
                      /\ Leaves(t, "del_free")
                      /\ th[t].calc = a
                      /\ heap[a].st = "removed"
                      /\ \A i \in 1..Len(calcs) : calcs[i] # a
                      /\ calcs_lock # t
                      /\ heap[a].lock = t
                      /\ \A u \in Threads \ {t} :
                            ~ (InBody(u) /\ th[u].calc = a)
      ]_vars

\* A Delete has returned Success and its Calculator is freed, while the other
\* thread had resolved the same Calculator before the removal.
C18_Witness ==
    \E t, u \in Threads : \E a \in Addrs :
        /\ t # u
        /\ th[t].pc = "ret"
        /\ th[t].op = "delete"
        /\ th[t].ret = RPNCALC_E_SUCCESS
        /\ heap[a].st = "freed"
        /\ heap[a].handle = th[t].handle
        /\ th[u].calc = a

\* C19: when Push, Pop, Apply, Size or At has returned on a handle that is
\* still registered, whatever the result code, the calling thread does not
\* hold that Calculator's instance lock.
C19_InstanceLockReleased ==
    \A t \in Threads : \A a \in Addrs :
        (/\ th[t].pc = "ret"
         /\ th[t].op \in {"push", "pop", "op", "size", "at"}
         /\ heap[a].st = "live"
         /\ heap[a].handle = th[t].handle)
        => heap[a].lock # t

====
